---- MODULE Spec2Model ----
(***************************************************************************)
(* The per-stream HTTP/2 state machine of src/proto/state.rs: StreamState, *)
(* PeerState and the four frame transitions plus the six window accessors. *)
(* FlowController (proto::FlowController) is used by state.rs but defined  *)
(* elsewhere; it is modelled from its description in the specification.    *)
(***************************************************************************)
EXTENDS Integers, Sequences, FiniteSets, TLC

VARIABLES
    state,          \* the StreamState of the stream
    last,           \* the last call made on it: operation, arguments, state before, result
    established,    \* how many HEADERS calls have returned Ok(true) so far
    recv_granted,   \* credit given to the controller recv_data claims against
    recv_claimed,   \* total length of the successful recv_data calls
    send_granted,   \* credit given to the controller send_data claims against
    send_claimed,   \* total length of the successful send_data calls
    recv_ended,     \* a recv_headers / recv_data call with eos has succeeded
    send_ended,     \* a send_headers / send_data call with eos has succeeded
    opened_by       \* the HEADERS operation that first returned Ok(true), "" before

vars == <<state, last, established, recv_granted, recv_claimed, send_granted, send_claimed,
          recv_ended, send_ended, opened_by>>

---------------------------------------------------------------------------
(* Bounds of the model *)

\* largest initial window size handed to recv_headers / send_headers
MaxInitialWindow == 1
\* largest DATA frame length handed to recv_data / send_data
MaxLen == 1
\* largest increment / decrement handed to the grow / shrink accessors
MaxIncr == 1
\* windows and pending increments are explored within -MaxWindow .. MaxWindow
MaxWindow == 2
\* total length of successful DATA calls explored per direction
MaxClaimed == 2

---------------------------------------------------------------------------
(* FlowController: window-credit accounting of one direction of one stream *)

\* the protocol-maximum window size, 2^31 - 1
MAX_WINDOW_SIZE == 2147483647

FlowControllerNew(window_size) ==
    [window_size |-> window_size, next_window_update |-> 0]

\* grow_window(incr): no-op on 0; the counter saturates at the maximum; the
\* increment is recorded as pending until take_window_update drains it
grow_window(fc, incr) ==
    IF incr = 0 THEN fc
    ELSE [window_size |-> IF fc.window_size > 0 /\ incr > MAX_WINDOW_SIZE - fc.window_size
                          THEN MAX_WINDOW_SIZE
                          ELSE fc.window_size + incr,
          next_window_update |-> fc.next_window_update + incr]

\* shrink_window(decr): no-op on 0; may drive the counter negative
shrink_window(fc, decr) ==
    IF decr = 0 THEN fc
    ELSE [fc EXCEPT !.window_size = fc.window_size - decr]

\* claim_window(len): fails when len exceeds the available capacity,
\* otherwise debits the window
claim_window(fc, sz) ==
    IF sz > fc.window_size
    THEN [ok |-> FALSE, fc |-> fc]
    ELSE [ok |-> TRUE, fc |-> [fc EXCEPT !.window_size = fc.window_size - sz]]

\* results of calls: a kind and, for Some(n), the number carried
Result(kind) == [kind |-> kind, n |-> 0]
Some(n) == [kind |-> "Some", n |-> n]
None == Result("None")

\* take_window_update(): drains the pending increment, None when nothing is pending
take_window_update(fc) ==
    IF fc.next_window_update = 0
    THEN [res |-> None, fc |-> fc]
    ELSE [res |-> Some(fc.next_window_update),
          fc |-> [fc EXCEPT !.next_window_update = 0]]

---------------------------------------------------------------------------
(* PeerState *)

Headers == [phase |-> "Headers"]
Data(fc) == [phase |-> "Data", fc |-> fc]

\* a check_is_headers that accepts every phase
check_is_headers_any(p) == p \in {Headers} \/ p.phase = "Data"

check_is_headers(p) == p = Headers

\* a check_is_data that accepts every phase
check_is_data_any(p) == p.phase \in {"Headers", "Data"}

check_is_data(p) == p.phase = "Data"

\* a claim_window_size that drops the controller's verdict
claim_window_size_unchecked(p, sz) ==
    IF p.phase = "Data"
    THEN [ok |-> TRUE, peer |-> Data(claim_window(p.fc, sz).fc)]
    ELSE [ok |-> FALSE, peer |-> p]

\* claim_window_size(&mut self, sz, err): ok, and the PeerState afterwards
claim_window_size(p, sz) ==
    IF p.phase = "Data"
    THEN LET c == claim_window(p.fc, sz) IN [ok |-> c.ok, peer |-> Data(c.fc)]
    ELSE [ok |-> FALSE, peer |-> p]

---------------------------------------------------------------------------
(* StreamState *)

Idle == [tag |-> "Idle"]
Open(local, remote) == [tag |-> "Open", local |-> local, remote |-> remote]
HalfClosedLocal(peer) == [tag |-> "HalfClosedLocal", peer |-> peer]
HalfClosedRemote(peer) == [tag |-> "HalfClosedRemote", peer |-> peer]
Closed == [tag |-> "Closed"]

\* impl Default for StreamState
Default == Idle

Ok(b) == Result(IF b THEN "Ok(true)" ELSE "Ok(false)")
OkUnit == Result("Ok(())")
Err(e) == Result("Err(" \o e \o ")")
Unit == Result("()")
Unimplemented == Result("unimplemented")

\* a call's outcome: the StreamState stored afterwards and what the call returned
Outcome(s, r) == [state |-> s, res |-> r]

\* a recv_headers that reopens a half-closed (local) stream on HEADERS without END_STREAM
recv_headers_reopens(self, eos, initial_recv_window_size) ==
    CASE self.tag = "Idle" ->
            IF eos
            THEN Outcome(HalfClosedRemote(Headers), Ok(TRUE))
            ELSE Outcome(Open(Headers, Data(FlowControllerNew(initial_recv_window_size))),
                         Ok(TRUE))
      [] self.tag = "Open" ->
            IF ~check_is_headers(self.remote) THEN Outcome(self, Err("ProtocolError"))
            ELSE IF ~eos THEN Outcome(self, Err("ProtocolError"))
            ELSE Outcome(HalfClosedRemote(self.local), Ok(FALSE))
      [] self.tag = "HalfClosedLocal" ->
            IF ~check_is_headers(self.peer) THEN Outcome(self, Err("ProtocolError"))
            ELSE IF eos THEN Outcome(Closed, Ok(FALSE))
            ELSE Outcome(Open(Headers, Data(FlowControllerNew(initial_recv_window_size))),
                         Ok(FALSE))
      [] self.tag \in {"Closed", "HalfClosedRemote"} ->
            Outcome(self, Err("ProtocolError"))

recv_headers(self, eos, initial_recv_window_size) ==
    CASE self.tag = "Idle" ->
            IF eos
            THEN Outcome(HalfClosedRemote(Headers), Ok(TRUE))
            ELSE Outcome(Open(Headers, Data(FlowControllerNew(initial_recv_window_size))),
                         Ok(TRUE))
      [] self.tag = "Open" ->
            IF ~check_is_headers(self.remote) THEN Outcome(self, Err("ProtocolError"))
            ELSE IF ~eos THEN Outcome(self, Err("ProtocolError"))
            ELSE Outcome(HalfClosedRemote(self.local), Ok(FALSE))
      [] self.tag = "HalfClosedLocal" ->
            IF ~check_is_headers(self.peer) THEN Outcome(self, Err("ProtocolError"))
            ELSE IF eos THEN Outcome(Closed, Ok(FALSE))
            ELSE Outcome(HalfClosedLocal(Data(FlowControllerNew(initial_recv_window_size))),
                         Ok(FALSE))
      [] self.tag \in {"Closed", "HalfClosedRemote"} ->
            Outcome(self, Err("ProtocolError"))

\* a recv_data whose error arm matches HalfClosedRemote only, so that Closed
\* falls through to the catch-all arm
recv_data_closed_falls_through(self, eos, len) ==
    CASE self.tag = "Open" ->
            LET local == self.local
                remote == self.remote
                claimed == claim_window_size(remote, len)
            IN  IF ~check_is_data(remote) THEN Outcome(self, Err("ProtocolError"))
                ELSE IF ~claimed.ok THEN Outcome(self, Err("FlowControlError"))
                ELSE IF eos THEN Outcome(HalfClosedRemote(local), OkUnit)
                ELSE Outcome(self, OkUnit)
      [] self.tag = "HalfClosedLocal" ->
            LET remote == self.peer
                claimed == claim_window_size(remote, len)
            IN  IF ~check_is_data(remote) THEN Outcome(self, Err("ProtocolError"))
                ELSE IF ~claimed.ok THEN Outcome(self, Err("FlowControlError"))
                ELSE IF eos THEN Outcome(Closed, OkUnit)
                ELSE Outcome(self, OkUnit)
      [] self.tag = "HalfClosedRemote" ->
            Outcome(self, Err("ProtocolError"))
      [] OTHER -> Outcome(self, Unimplemented)

\* a recv_data that keeps the wrong half on END_STREAM: HalfClosedRemote(remote)
recv_data_keeps_remote(self, eos, len) ==
    CASE self.tag = "Open" ->
            LET local == self.local
                remote == self.remote
                claimed == claim_window_size(remote, len)
            IN  IF ~check_is_data(remote) THEN Outcome(self, Err("ProtocolError"))
                ELSE IF ~claimed.ok THEN Outcome(self, Err("FlowControlError"))
                ELSE IF eos THEN Outcome(HalfClosedRemote(remote), OkUnit)
                ELSE Outcome(self, OkUnit)
      [] self.tag = "HalfClosedLocal" ->
            LET remote == self.peer
                claimed == claim_window_size(remote, len)
            IN  IF ~check_is_data(remote) THEN Outcome(self, Err("ProtocolError"))
                ELSE IF ~claimed.ok THEN Outcome(self, Err("FlowControlError"))
                ELSE IF eos THEN Outcome(Closed, OkUnit)
                ELSE Outcome(self, OkUnit)
      [] self.tag \in {"Closed", "HalfClosedRemote"} ->
            Outcome(self, Err("ProtocolError"))
      [] OTHER -> Outcome(self, Unimplemented)

\* `Open { local, mut remote }` and `HalfClosedLocal(mut remote)` bind copies
\* (StreamState and PeerState are Copy): the claim debits the copy, and the
\* stored state changes only where *self is assigned
recv_data(self, eos, len) ==
    CASE self.tag = "Open" ->
            LET local == self.local
                remote == self.remote
                claimed == claim_window_size(remote, len)
            IN  IF ~check_is_data(remote) THEN Outcome(self, Err("ProtocolError"))
                ELSE IF ~claimed.ok THEN Outcome(self, Err("FlowControlError"))
                ELSE IF eos THEN Outcome(HalfClosedRemote(local), OkUnit)
                ELSE Outcome(self, OkUnit)
      [] self.tag = "HalfClosedLocal" ->
            LET remote == self.peer
                claimed == claim_window_size(remote, len)
            IN  IF ~check_is_data(remote) THEN Outcome(self, Err("ProtocolError"))
                ELSE IF ~claimed.ok THEN Outcome(self, Err("FlowControlError"))
                ELSE IF eos THEN Outcome(Closed, OkUnit)
                ELSE Outcome(self, OkUnit)
      [] self.tag \in {"Closed", "HalfClosedRemote"} ->
            Outcome(self, Err("ProtocolError"))
      [] OTHER -> Outcome(self, Unimplemented)

\* a send_headers that reports the peer-side error kind from Closed / HalfClosedLocal
send_headers_peer_error(self, eos, initial_window_size) ==
    CASE self.tag = "Idle" ->
            IF eos
            THEN Outcome(HalfClosedLocal(Headers), Ok(TRUE))
            ELSE Outcome(Open(Data(FlowControllerNew(initial_window_size)), Headers),
                         Ok(TRUE))
      [] self.tag = "Open" ->
            IF ~check_is_headers(self.local) THEN Outcome(self, Err("UnexpectedFrameType"))
            ELSE IF eos THEN Outcome(HalfClosedLocal(self.remote), Ok(FALSE))
            ELSE Outcome(Open(Data(FlowControllerNew(initial_window_size)), self.remote),
                         Ok(FALSE))
      [] self.tag = "HalfClosedRemote" ->
            IF ~check_is_headers(self.peer) THEN Outcome(self, Err("UnexpectedFrameType"))
            ELSE IF eos THEN Outcome(Closed, Ok(FALSE))
            ELSE Outcome(HalfClosedRemote(Data(FlowControllerNew(initial_window_size))),
                         Ok(FALSE))
      [] self.tag \in {"Closed", "HalfClosedLocal"} ->
            Outcome(self, Err("ProtocolError"))

\* a send_headers that reports Ok(true) for the response HEADERS of an Open stream
send_headers_always_true(self, eos, initial_window_size) ==
    CASE self.tag = "Idle" ->
            IF eos
            THEN Outcome(HalfClosedLocal(Headers), Ok(TRUE))
            ELSE Outcome(Open(Data(FlowControllerNew(initial_window_size)), Headers),
                         Ok(TRUE))
      [] self.tag = "Open" ->
            IF ~check_is_headers(self.local) THEN Outcome(self, Err("UnexpectedFrameType"))
            ELSE IF eos THEN Outcome(HalfClosedLocal(self.remote), Ok(TRUE))
            ELSE Outcome(Open(Data(FlowControllerNew(initial_window_size)), self.remote),
                         Ok(TRUE))
      [] self.tag = "HalfClosedRemote" ->
            IF ~check_is_headers(self.peer) THEN Outcome(self, Err("UnexpectedFrameType"))
            ELSE IF eos THEN Outcome(Closed, Ok(FALSE))
            ELSE Outcome(HalfClosedRemote(Data(FlowControllerNew(initial_window_size))),
                         Ok(FALSE))
      [] self.tag \in {"Closed", "HalfClosedLocal"} ->
            Outcome(self, Err("UnexpectedFrameType"))

send_headers(self, eos, initial_window_size) ==
    CASE self.tag = "Idle" ->
            IF eos
            THEN Outcome(HalfClosedLocal(Headers), Ok(TRUE))
            ELSE Outcome(Open(Data(FlowControllerNew(initial_window_size)), Headers),
                         Ok(TRUE))
      [] self.tag = "Open" ->
            IF ~check_is_headers(self.local) THEN Outcome(self, Err("UnexpectedFrameType"))
            ELSE IF eos THEN Outcome(HalfClosedLocal(self.remote), Ok(FALSE))
            ELSE Outcome(Open(Data(FlowControllerNew(initial_window_size)), self.remote),
                         Ok(FALSE))
      [] self.tag = "HalfClosedRemote" ->
            IF ~check_is_headers(self.peer) THEN Outcome(self, Err("UnexpectedFrameType"))
            ELSE IF eos THEN Outcome(Closed, Ok(FALSE))
            ELSE Outcome(HalfClosedRemote(Data(FlowControllerNew(initial_window_size))),
                         Ok(FALSE))
      [] self.tag \in {"Closed", "HalfClosedLocal"} ->
            Outcome(self, Err("UnexpectedFrameType"))

\* a send_data that forgets to close a half-closed (remote) stream on END_STREAM
send_data_no_close(self, eos, len) ==
    CASE self.tag = "Open" ->
            LET local == self.local
                remote == self.remote
                claimed == claim_window_size(local, len)
            IN  IF ~check_is_data(local) THEN Outcome(self, Err("UnexpectedFrameType"))
                ELSE IF ~claimed.ok THEN Outcome(self, Err("FlowControlViolation"))
                ELSE IF eos THEN Outcome(HalfClosedLocal(remote), OkUnit)
                ELSE Outcome(self, OkUnit)
      [] self.tag = "HalfClosedRemote" ->
            LET local == self.peer
                claimed == claim_window_size(local, len)
            IN  IF ~check_is_data(local) THEN Outcome(self, Err("UnexpectedFrameType"))
                ELSE IF ~claimed.ok THEN Outcome(self, Err("FlowControlViolation"))
                ELSE Outcome(self, OkUnit)
      [] self.tag \in {"Closed", "HalfClosedLocal"} ->
            Outcome(self, Err("UnexpectedFrameType"))
      [] OTHER -> Outcome(self, Unimplemented)

\* as in recv_data, `Open { mut local, remote }` and `HalfClosedRemote(mut local)`
\* bind copies
send_data(self, eos, len) ==
    CASE self.tag = "Open" ->
            LET local == self.local
                remote == self.remote
                claimed == claim_window_size(local, len)
            IN  IF ~check_is_data(local) THEN Outcome(self, Err("UnexpectedFrameType"))
                ELSE IF ~claimed.ok THEN Outcome(self, Err("FlowControlViolation"))
                ELSE IF eos THEN Outcome(HalfClosedLocal(remote), OkUnit)
                ELSE Outcome(self, OkUnit)
      [] self.tag = "HalfClosedRemote" ->
            LET local == self.peer
                claimed == claim_window_size(local, len)
            IN  IF ~check_is_data(local) THEN Outcome(self, Err("UnexpectedFrameType"))
                ELSE IF ~claimed.ok THEN Outcome(self, Err("FlowControlViolation"))
                ELSE IF eos THEN Outcome(Closed, OkUnit)
                ELSE Outcome(self, OkUnit)
      [] self.tag \in {"Closed", "HalfClosedLocal"} ->
            Outcome(self, Err("UnexpectedFrameType"))
      [] OTHER -> Outcome(self, Unimplemented)

\* the send-window accessors
\* a grow_send_window that picks Open.local, as shrink_send_window does
grow_send_window_local(self, incr) ==
    IF incr = 0 THEN Outcome(self, Unit)
    ELSE CASE self.tag = "Open" /\ self.local.phase = "Data" ->
                Outcome(Open(Data(grow_window(self.local.fc, incr)), self.remote), Unit)
           [] self.tag = "HalfClosedLocal" /\ self.peer.phase = "Data" ->
                Outcome(HalfClosedLocal(Data(grow_window(self.peer.fc, incr))), Unit)
           [] OTHER -> Outcome(self, Unit)

grow_send_window(self, incr) ==
    IF incr = 0 THEN Outcome(self, Unit)
    ELSE CASE self.tag = "Open" /\ self.remote.phase = "Data" ->
                Outcome(Open(self.local, Data(grow_window(self.remote.fc, incr))), Unit)
           [] self.tag = "HalfClosedLocal" /\ self.peer.phase = "Data" ->
                Outcome(HalfClosedLocal(Data(grow_window(self.peer.fc, incr))), Unit)
           [] OTHER -> Outcome(self, Unit)

shrink_send_window(self, decr) ==
    IF decr = 0 THEN Outcome(self, Unit)
    ELSE CASE self.tag = "Open" /\ self.local.phase = "Data" ->
                Outcome(Open(Data(shrink_window(self.local.fc, decr)), self.remote), Unit)
           [] self.tag = "HalfClosedLocal" /\ self.peer.phase = "Data" ->
                Outcome(HalfClosedLocal(Data(shrink_window(self.peer.fc, decr))), Unit)
           [] OTHER -> Outcome(self, Unit)

\* a take_send_window_update that drains a copy of the controller
take_send_window_update_copy(self) ==
    CASE self.tag = "Open" /\ self.remote.phase = "Data" ->
            Outcome(self, take_window_update(self.remote.fc).res)
      [] self.tag = "HalfClosedLocal" /\ self.peer.phase = "Data" ->
            Outcome(self, take_window_update(self.peer.fc).res)
      [] OTHER -> Outcome(self, None)

take_send_window_update(self) ==
    CASE self.tag = "Open" /\ self.remote.phase = "Data" ->
            LET t == take_window_update(self.remote.fc)
            IN  Outcome(Open(self.local, Data(t.fc)), t.res)
      [] self.tag = "HalfClosedLocal" /\ self.peer.phase = "Data" ->
            LET t == take_window_update(self.peer.fc)
            IN  Outcome(HalfClosedLocal(Data(t.fc)), t.res)
      [] OTHER -> Outcome(self, None)

\* the recv-window accessors
grow_recv_window(self, incr) ==
    IF incr = 0 THEN Outcome(self, Unit)
    ELSE CASE self.tag = "Open" /\ self.local.phase = "Data" ->
                Outcome(Open(Data(grow_window(self.local.fc, incr)), self.remote), Unit)
           [] self.tag = "HalfClosedRemote" /\ self.peer.phase = "Data" ->
                Outcome(HalfClosedRemote(Data(grow_window(self.peer.fc, incr))), Unit)
           [] OTHER -> Outcome(self, Unit)

shrink_recv_window(self, decr) ==
    IF decr = 0 THEN Outcome(self, Unit)
    ELSE CASE self.tag = "Open" /\ self.local.phase = "Data" ->
                Outcome(Open(Data(shrink_window(self.local.fc, decr)), self.remote), Unit)
           [] self.tag = "HalfClosedRemote" /\ self.peer.phase = "Data" ->
                Outcome(HalfClosedRemote(Data(shrink_window(self.peer.fc, decr))), Unit)
           [] OTHER -> Outcome(self, Unit)

take_recv_window_update(self) ==
    CASE self.tag = "Open" /\ self.local.phase = "Data" ->
            LET t == take_window_update(self.local.fc)
            IN  Outcome(Open(Data(t.fc), self.remote), t.res)
      [] self.tag = "HalfClosedRemote" /\ self.peer.phase = "Data" ->
            LET t == take_window_update(self.peer.fc)
            IN  Outcome(HalfClosedRemote(Data(t.fc)), t.res)
      [] OTHER -> Outcome(self, None)

---------------------------------------------------------------------------
(* The halves the DATA transitions operate on *)

\* the PeerState recv_data checks and claims against, if the state carries one
RecvHalf(s) ==
    IF s.tag = "Open" THEN {s.remote}
    ELSE IF s.tag = "HalfClosedLocal" THEN {s.peer}
    ELSE {}

\* the PeerState send_data checks and claims against, if the state carries one
SendHalf(s) ==
    IF s.tag = "Open" THEN {s.local}
    ELSE IF s.tag = "HalfClosedRemote" THEN {s.peer}
    ELSE {}

\* the FlowControllers of a set of halves
Controllers(halves) == {p.fc : p \in {q \in halves : q.phase = "Data"}}

\* every FlowController a state carries
AllControllers(s) ==
    IF s.tag = "Open" THEN Controllers({s.local, s.remote})
    ELSE IF s.tag \in {"HalfClosedLocal", "HalfClosedRemote"} THEN Controllers({s.peer})
    ELSE {}

WindowOf(fcs) == (CHOOSE fc \in fcs : TRUE).window_size

\* credit of a controller after a HEADERS call or a window accessor: the initial
\* window when the controller is created, then every change applied to its window
Credit(old, before, after) ==
    IF after = {} THEN old
    ELSE IF before = {} THEN WindowOf(after)
    ELSE old + (WindowOf(after) - WindowOf(before))

---------------------------------------------------------------------------
(* The stream as a state machine: one action per public operation *)

Call(op, eos, arg, out) ==
    [op |-> op, eos |-> eos, arg |-> arg, pre |-> state, res |-> out.res]

\* the windows and pending increments explored: windows around 0 and, for the
\* controllers created at the top of the range, just below the protocol maximum
WithinBounds(s) ==
    \A fc \in AllControllers(s) :
        /\ \/ fc.window_size \in (-MaxWindow) .. MaxWindow
           \/ fc.window_size > 0 /\ MAX_WINDOW_SIZE - fc.window_size \in 0 .. MaxWindow
        /\ fc.next_window_update \in 0 .. MaxWindow

\* what the call adds to the record of the stream: END_STREAM accepted in either
\* direction, and the operation that established the stream
History(op, eos, out) ==
    LET ends == eos /\ out.res \in {Ok(TRUE), Ok(FALSE), OkUnit} IN
    /\ recv_ended' = (recv_ended \/ (ends /\ op \in {"recv_headers", "recv_data"}))
    /\ send_ended' = (send_ended \/ (ends /\ op \in {"send_headers", "send_data"}))
    /\ opened_by' = IF opened_by = "" /\ out.res = Ok(TRUE) THEN op ELSE opened_by

Init ==
    /\ state = Default
    /\ last = [op |-> "default", eos |-> FALSE, arg |-> 0, pre |-> Default, res |-> Unit]
    /\ established = 0
    /\ recv_granted = 0
    /\ recv_claimed = 0
    /\ send_granted = 0
    /\ send_claimed = 0
    /\ recv_ended = FALSE
    /\ send_ended = FALSE
    /\ opened_by = ""

\* a HEADERS call or a window accessor: `out` is what the call did
Step(op, eos, arg, out) ==
    /\ WithinBounds(out.state)
    /\ state' = out.state
    /\ last' = Call(op, eos, arg, out)
    /\ established' = IF out.res = Ok(TRUE) /\ established < 2
                      THEN established + 1 ELSE established
    /\ recv_granted' = Credit(recv_granted, Controllers(RecvHalf(state)),
                              Controllers(RecvHalf(out.state)))
    /\ send_granted' = Credit(send_granted, Controllers(SendHalf(state)),
                              Controllers(SendHalf(out.state)))
    /\ UNCHANGED <<recv_claimed, send_claimed>>
    /\ History(op, eos, out)

RecvHeaders ==
    \E eos \in BOOLEAN, w \in 0 .. MaxInitialWindow :
        Step("recv_headers", eos, w, recv_headers(state, eos, w))

SendHeaders ==
    \E eos \in BOOLEAN, w \in 0 .. MaxInitialWindow :
        Step("send_headers", eos, w, send_headers(state, eos, w))

RecvData ==
    \E eos \in BOOLEAN, len \in 0 .. MaxLen :
        LET out == recv_data(state, eos, len) IN
        /\ state' = out.state
        /\ last' = Call("recv_data", eos, len, out)
        /\ recv_claimed' = IF out.res = OkUnit THEN recv_claimed + len ELSE recv_claimed
        /\ recv_claimed' <= MaxClaimed
        /\ UNCHANGED <<established, recv_granted, send_granted, send_claimed>>
        /\ History("recv_data", eos, out)

SendData ==
    \E eos \in BOOLEAN, len \in 0 .. MaxLen :
        LET out == send_data(state, eos, len) IN
        /\ state' = out.state
        /\ last' = Call("send_data", eos, len, out)
        /\ send_claimed' = IF out.res = OkUnit THEN send_claimed + len ELSE send_claimed
        /\ send_claimed' <= MaxClaimed
        /\ UNCHANGED <<established, recv_granted, recv_claimed, send_granted>>
        /\ History("send_data", eos, out)

GrowSendWindow ==
    \E incr \in 0 .. MaxIncr :
        Step("grow_send_window", FALSE, incr, grow_send_window(state, incr))

ShrinkSendWindow ==
    \E decr \in 0 .. MaxIncr :
        Step("shrink_send_window", FALSE, decr, shrink_send_window(state, decr))

TakeSendWindowUpdate ==
    Step("take_send_window_update", FALSE, 0, take_send_window_update(state))

GrowRecvWindow ==
    \E incr \in 0 .. MaxIncr :
        Step("grow_recv_window", FALSE, incr, grow_recv_window(state, incr))

ShrinkRecvWindow ==
    \E decr \in 0 .. MaxIncr :
        Step("shrink_recv_window", FALSE, decr, shrink_recv_window(state, decr))

TakeRecvWindowUpdate ==
    Step("take_recv_window_update", FALSE, 0, take_recv_window_update(state))

Next ==
    \/ RecvHeaders
    \/ RecvData
    \/ SendHeaders
    \/ SendData
    \/ GrowSendWindow
    \/ ShrinkSendWindow
    \/ TakeSendWindowUpdate
    \/ GrowRecvWindow
    \/ ShrinkRecvWindow
    \/ TakeRecvWindowUpdate

Spec == Init /\ [][Next]_vars

\* recv_headers with initial windows at the top of the range
RecvHeadersHigh ==
    \E eos \in BOOLEAN, w \in {MAX_WINDOW_SIZE - i : i \in 0 .. MaxInitialWindow} :
        Step("recv_headers", eos, w, recv_headers(state, eos, w))

NextHigh ==
    \/ RecvHeadersHigh
    \/ RecvData
    \/ SendHeaders
    \/ SendData
    \/ GrowSendWindow
    \/ ShrinkSendWindow
    \/ TakeSendWindowUpdate
    \/ GrowRecvWindow
    \/ ShrinkRecvWindow
    \/ TakeRecvWindowUpdate

\* the stream with the receive-side controller created near the protocol maximum
SpecHigh == Init /\ [][NextHigh]_vars

---------------------------------------------------------------------------
(* Properties *)

IsErr(res) ==
    res \in {Err("ProtocolError"), Err("FlowControlError"),
             Err("UnexpectedFrameType"), Err("FlowControlViolation")}

\* C1: recv_headers(eos, w) produces exactly the next state and result of the
\* transition table: Idle -> HalfClosedRemote(Headers) / Open{Headers, Data(w)}
\* with Ok(true); Open with remote Headers and eos -> HalfClosedRemote(local),
\* Ok(false); HalfClosedLocal(Headers) -> Closed / HalfClosedLocal(Data(w)) with
\* Ok(false); every other case Err(ProtocolError) with the state untouched.
C1_RecvHeadersTable ==
    last.op = "recv_headers" =>
        LET s == last.pre
            eos == last.eos
            w == last.arg
            rejected == last.res = Err("ProtocolError") /\ state = s
        IN  CASE s.tag = "Idle" /\ eos ->
                    state = HalfClosedRemote(Headers) /\ last.res = Ok(TRUE)
              [] s.tag = "Idle" /\ ~eos ->
                    /\ state.tag = "Open"
                    /\ state.local = Headers
                    /\ state.remote.phase = "Data"
                    /\ state.remote.fc.window_size = w
                    /\ last.res = Ok(TRUE)
              [] s.tag = "Open" /\ s.remote = Headers /\ eos ->
                    state = HalfClosedRemote(s.local) /\ last.res = Ok(FALSE)
              [] s.tag = "Open" /\ s.remote = Headers /\ ~eos -> rejected
              [] s.tag = "Open" /\ s.remote # Headers -> rejected
              [] s.tag = "HalfClosedLocal" /\ s.peer = Headers /\ eos ->
                    state = Closed /\ last.res = Ok(FALSE)
              [] s.tag = "HalfClosedLocal" /\ s.peer = Headers /\ ~eos ->
                    /\ state.tag = "HalfClosedLocal"
                    /\ state.peer.phase = "Data"
                    /\ state.peer.fc.window_size = w
                    /\ last.res = Ok(FALSE)
              [] s.tag = "HalfClosedLocal" /\ s.peer # Headers -> rejected
              [] s.tag \in {"Closed", "HalfClosedRemote"} -> rejected

\* C1 witness: HEADERS without END_STREAM received on a stream whose local side
\* is half-closed and whose remote side was still in the Headers phase.
C1_Witness ==
    /\ last.op = "recv_headers"
    /\ last.pre = HalfClosedLocal(Headers)
    /\ ~last.eos
    /\ last.arg = 1
    /\ state = HalfClosedLocal(Data(FlowControllerNew(1)))

\* role swap: local <-> remote, HalfClosedLocal <-> HalfClosedRemote
SwapRoles(s) ==
    CASE s.tag = "Open" -> Open(s.remote, s.local)
      [] s.tag = "HalfClosedLocal" -> HalfClosedRemote(s.peer)
      [] s.tag = "HalfClosedRemote" -> HalfClosedLocal(s.peer)
      [] OTHER -> s

\* the send-side error kind of a receive-side result
SwapErr(res) ==
    CASE res = Err("ProtocolError") -> Err("UnexpectedFrameType")
      [] res = Err("FlowControlError") -> Err("FlowControlViolation")
      [] OTHER -> res

Mirror(out) == Outcome(SwapRoles(out.state), SwapErr(out.res))

\* what the last call did: the state it left and the result it returned
Observed == Outcome(state, last.res)

\* C2 as stated: send_headers and send_data are the mirror images of recv_headers
\* and recv_data in every state, for every eos: the same transition on the
\* role-swapped state, with UnexpectedFrameType / FlowControlViolation in place of
\* ProtocolError / FlowControlError.
C2_Original ==
    /\ last.op = "send_headers" =>
            Observed = Mirror(recv_headers(SwapRoles(last.pre), last.eos, last.arg))
    /\ last.op = "send_data" =>
            Observed = Mirror(recv_data(SwapRoles(last.pre), last.eos, last.arg))

\* C2 amended: send_data mirrors recv_data everywhere, and send_headers mirrors
\* recv_headers everywhere except on Open{local: Headers} with eos = false, where
\* send_headers succeeds with Ok(false) and puts local in the Data phase with a
\* new controller of the given window (recv_headers rejects the mirrored call).
C2_MirrorExceptOpenHeaders ==
    /\ last.op = "send_headers" =>
            IF last.pre.tag = "Open" /\ last.pre.local = Headers /\ ~last.eos
            THEN /\ last.res = Ok(FALSE)
                 /\ state.tag = "Open"
                 /\ state.remote = last.pre.remote
                 /\ state.local.phase = "Data"
                 /\ state.local.fc.window_size = last.arg
                 /\ recv_headers(SwapRoles(last.pre), last.eos, last.arg)
                        = Outcome(SwapRoles(last.pre), Err("ProtocolError"))
            ELSE Observed = Mirror(recv_headers(SwapRoles(last.pre), last.eos, last.arg))
    /\ last.op = "send_data" =>
            Observed = Mirror(recv_data(SwapRoles(last.pre), last.eos, last.arg))

\* C2 witness: response HEADERS without END_STREAM sent on a stream the peer opened.
C2_Witness ==
    /\ last.op = "send_headers"
    /\ last.pre.tag = "Open"
    /\ last.pre.local = Headers
    /\ ~last.eos
    /\ last.res = Ok(FALSE)
    /\ state.tag = "Open"
    /\ state.local.phase = "Data"

\* the half a DATA call operates on, in the state before the call
DataHalf(op, s) == IF op = "recv_data" THEN RecvHalf(s) ELSE SendHalf(s)

\* the call's length fits the window of a Data-phase half
Fits(halves, len) == \E fc \in Controllers(halves) : len <= fc.window_size

\* C3: recv_data / send_data succeed only if the half they operate on is in the
\* Data phase and len is at most its window; in every other case the call returns
\* an error and the StreamState is what it was before the call.
C3_DataSucceedsOnlyWithinWindow ==
    last.op \in {"recv_data", "send_data"} =>
        LET fits == Fits(DataHalf(last.op, last.pre), last.arg)
        IN  /\ last.res = OkUnit => fits
            /\ ~fits => IsErr(last.res) /\ state = last.pre

\* C4: a successful recv_data / send_data with eos = false leaves the controller
\* of the half it operates on with its window debited by len.
C4_SuccessfulDataDebitsWindow ==
    (last.op \in {"recv_data", "send_data"} /\ last.res = OkUnit /\ ~last.eos) =>
        /\ Controllers(DataHalf(last.op, state)) # {}
        /\ WindowOf(Controllers(DataHalf(last.op, state)))
              = WindowOf(Controllers(DataHalf(last.op, last.pre))) - last.arg

\* C5: whenever a DATA call succeeds, the total length of the successful
\* recv_data (send_data) calls is within the credit given to the controller they
\* claim against: its initial window plus the increments, minus the shrinks,
\* applied to it.
C5_ClaimsWithinCredit ==
    /\ (last.op = "recv_data" /\ last.res = OkUnit) => recv_claimed <= recv_granted
    /\ (last.op = "send_data" /\ last.res = OkUnit) => send_claimed <= send_granted

Tier(s) ==
    CASE s.tag = "Idle" -> 0
      [] s.tag = "Open" -> 1
      [] s.tag \in {"HalfClosedLocal", "HalfClosedRemote"} -> 2
      [] s.tag = "Closed" -> 3

\* C6: no operation, successful or failing, moves the stream to an earlier tier
\* of Idle < Open < {HalfClosedLocal, HalfClosedRemote} < Closed, nor from one
\* half-closed side to the other.
C6_Monotonic ==
    [][/\ Tier(state') >= Tier(state)
       /\ state.tag \in {"HalfClosedLocal", "HalfClosedRemote"}
            => state'.tag \in {state.tag, "Closed"}]_vars

\* C6 witness: HEADERS without END_STREAM accepted on a half-closed (local)
\* stream, which stays half-closed (local).
C6_Witness ==
    /\ last.op = "recv_headers"
    /\ last.pre = HalfClosedLocal(Headers)
    /\ last.res = Ok(FALSE)
    /\ state.tag = "HalfClosedLocal"
    /\ state.peer.phase = "Data"

\* C7: in every reachable state, Idle included, recv_data and send_data return
\* Ok or a typed Err and never reach the unimplemented branch.
C7_DataNeverUnimplemented ==
    last.op \in {"recv_data", "send_data"} => last.res # Unimplemented

\* the lengths send_data / recv_data accept in a state
CanSend(s) == {len \in 0 .. 2 * (MaxWindow + MaxIncr) : send_data(s, FALSE, len).res = OkUnit}
CanRecv(s) == {len \in 0 .. 2 * (MaxWindow + MaxIncr) : recv_data(s, FALSE, len).res = OkUnit}

Largest(S) == CHOOSE n \in S : \A m \in S : m <= n

\* C8: where send_data can succeed, grow_send_window(incr) raises by incr the
\* capacity the next send_data claims against; where recv_data can succeed,
\* grow_recv_window(incr) raises by incr the capacity the next recv_data claims
\* against.
C8_GrowRaisesOwnDirection ==
    /\ (last.op = "grow_send_window" /\ CanSend(last.pre) # {}) =>
            /\ CanSend(state) # {}
            /\ Largest(CanSend(state)) = Largest(CanSend(last.pre)) + last.arg
    /\ (last.op = "grow_recv_window" /\ CanRecv(last.pre) # {}) =>
            /\ CanRecv(state) # {}
            /\ Largest(CanRecv(state)) = Largest(CanRecv(last.pre)) + last.arg

\* C8 amended: grow_send_window(incr) raises by incr the capacity the next
\* recv_data claims against (the controller of Open.remote or of HalfClosedLocal's
\* half: "the remote may send incr more bytes"), in every state where recv_data can
\* succeed; grow_recv_window(incr) raises by incr the capacity the next send_data
\* claims against (Open.local or HalfClosedRemote's half), in every state where
\* send_data can succeed. Windows stay below the protocol maximum here.
C8_GrowRaisesPeerDirection ==
    /\ (last.op = "grow_send_window" /\ CanRecv(last.pre) # {}) =>
            /\ CanRecv(state) # {}
            /\ Largest(CanRecv(state)) = Largest(CanRecv(last.pre)) + last.arg
    /\ (last.op = "grow_recv_window" /\ CanSend(last.pre) # {}) =>
            /\ CanSend(state) # {}
            /\ Largest(CanSend(state)) = Largest(CanSend(last.pre)) + last.arg

\* C8 witness: with both halves in the Data phase, grow_send_window(1) has raised
\* what recv_data accepts and left what send_data accepts as it was.
C8_Witness ==
    /\ last.op = "grow_send_window"
    /\ last.arg = 1
    /\ last.pre.tag = "Open"
    /\ CanRecv(last.pre) # {}
    /\ CanSend(last.pre) # {}
    /\ Largest(CanRecv(state)) = Largest(CanRecv(last.pre)) + 1
    /\ Largest(CanSend(state)) = Largest(CanSend(last.pre))

\* the controller the send-window accessors are documented to act on: the
\* Data-phase controller of Open.remote, or of the half HalfClosedLocal carries
SendWindowTarget(s) ==
    IF s.tag = "Open" THEN Controllers({s.remote})
    ELSE IF s.tag = "HalfClosedLocal" THEN Controllers({s.peer})
    ELSE {}

\* C9: grow_send_window, shrink_send_window and take_send_window_update act on
\* one and the same controller, that of Open.remote or of HalfClosedLocal's half:
\* they leave Open.local as it is, and grow / shrink by a positive amount move the
\* window of that controller by the amount.
C9_SendAccessorsSameController ==
    last.op \in {"grow_send_window", "shrink_send_window", "take_send_window_update"} =>
        /\ last.pre.tag = "Open" => state.tag = "Open" /\ state.local = last.pre.local
        /\ (last.arg > 0 /\ SendWindowTarget(last.pre) # {}) =>
              /\ SendWindowTarget(state) # {}
              /\ WindowOf(SendWindowTarget(state)) =
                    WindowOf(SendWindowTarget(last.pre))
                      + (IF last.op = "grow_send_window" THEN last.arg ELSE -last.arg)

\* C10: a HEADERS call returns Ok(true) exactly when it takes the stream out of
\* Idle, and at most one HEADERS call of a stream ever returns Ok(true).
C10_OkTrueOnlyOutOfIdle ==
    /\ last.op \in {"recv_headers", "send_headers"} =>
            (last.res = Ok(TRUE) <=> (last.pre = Idle /\ state # Idle))
    /\ established <= 1

\* C10 witness: a second successful HEADERS call on an established stream,
\* returning Ok(false).
C10_Witness ==
    /\ established = 1
    /\ last.op = "send_headers"
    /\ last.pre.tag = "Open"
    /\ last.res = Ok(FALSE)

RecvOps == {"recv_headers", "recv_data"}
SendOps == {"send_headers", "send_data"}
GrowShrinkOps == {"grow_send_window", "shrink_send_window",
                  "grow_recv_window", "shrink_recv_window"}
TakeOps == {"take_send_window_update", "take_recv_window_update"}
SendAccessors == {"grow_send_window", "shrink_send_window", "take_send_window_update"}

Succeeded(res) == res \in {Ok(TRUE), Ok(FALSE), OkUnit}

\* C11: Closed is absorbing: from Closed, recv_headers and recv_data return
\* Err(ProtocolError), send_headers and send_data return Err(UnexpectedFrameType),
\* whatever the arguments, and after these calls and after every window accessor
\* the state is still Closed.
C11_ClosedAbsorbing ==
    last.pre = Closed =>
        /\ state = Closed
        /\ last.op \in RecvOps => last.res = Err("ProtocolError")
        /\ last.op \in SendOps => last.res = Err("UnexpectedFrameType")

\* C11 witness: a DATA frame received on a Closed stream has been rejected.
C11_Witness ==
    /\ last.pre = Closed
    /\ last.op = "recv_data"
    /\ last.res = Err("ProtocolError")
    /\ state = Closed

\* the call's length exceeds the window of a Data-phase half
Exceeds(halves, len) == \E fc \in Controllers(halves) : len > fc.window_size

\* C12: every call of recv_headers / recv_data that fails returns ProtocolError
\* or FlowControlError, every call of send_headers / send_data that fails returns
\* UnexpectedFrameType or FlowControlViolation; the flow-control kind is returned
\* exactly when the half operated on is in the Data phase and len exceeds its
\* window, the frame-legality kind in every other failing case.
C12_ErrorKinds ==
    (last.op \in RecvOps \cup SendOps /\ ~Succeeded(last.res)) =>
        LET flow == IF last.op \in RecvOps THEN Err("FlowControlError")
                    ELSE Err("FlowControlViolation")
            legality == IF last.op \in RecvOps THEN Err("ProtocolError")
                        ELSE Err("UnexpectedFrameType")
            exceeds == /\ last.op \in {"recv_data", "send_data"}
                       /\ Exceeds(DataHalf(last.op, last.pre), last.arg)
        IN  last.res = IF exceeds THEN flow ELSE legality

\* an END_STREAM event of one direction, and what it does to a state
RecvEndEvents == [op : RecvOps, arg : 0 .. MaxLen]
SendEndEvents == [op : SendOps, arg : 0 .. MaxLen]

Apply(ev, s) ==
    CASE ev.op = "recv_headers" -> recv_headers(s, TRUE, ev.arg)
      [] ev.op = "recv_data" -> recv_data(s, TRUE, ev.arg)
      [] ev.op = "send_headers" -> send_headers(s, TRUE, ev.arg)
      [] ev.op = "send_data" -> send_data(s, TRUE, ev.arg)

\* both orders of a receive-side and a send-side END_STREAM end in Closed, the
\* first call landing on the half-closed state of its side
BothOrdersClose(s, r, t) ==
    LET a == Apply(r, s)
        ab == Apply(t, a.state)
        b == Apply(t, s)
        ba == Apply(r, b.state)
    IN  /\ a.state.tag = "HalfClosedRemote"
        /\ Succeeded(ab.res) /\ ab.state = Closed
        /\ b.state.tag = "HalfClosedLocal"
        /\ Succeeded(ba.res) /\ ba.state = Closed

\* C13: from every reachable Open state, a successful END_STREAM event of the
\* receive side and a successful one of the send side, applied in either order,
\* leave the stream Closed: the first lands on HalfClosedRemote resp.
\* HalfClosedLocal, the second succeeds and is the one that enters Closed.
C13_EndStreamOrderIndependent ==
    /\ state.tag = "Open" =>
            \A r \in RecvEndEvents, t \in SendEndEvents :
                (Succeeded(Apply(r, state).res) /\ Succeeded(Apply(t, state).res))
                    => BothOrdersClose(state, r, t)
    /\ (last.eos /\ Succeeded(last.res) /\ last.op \in SendOps
            /\ last.pre.tag = "HalfClosedRemote") => state = Closed
    /\ (last.eos /\ Succeeded(last.res) /\ last.op \in RecvOps
            /\ last.pre.tag = "HalfClosedLocal") => state = Closed

\* C13 witness: an Open stream with both halves in the Data phase on which a DATA
\* frame with END_STREAM can be received and sent, in both orders.
C13_Witness ==
    /\ state.tag = "Open"
    /\ state.local.phase = "Data"
    /\ state.remote.phase = "Data"
    /\ Succeeded(recv_data(state, TRUE, 1).res)
    /\ Succeeded(send_data(state, TRUE, 1).res)
    /\ BothOrdersClose(state, [op |-> "recv_data", arg |-> 1],
                       [op |-> "send_data", arg |-> 1])

\* the variant and the phase of each half
Shape(s) ==
    CASE s.tag = "Open" -> <<s.tag, s.local.phase, s.remote.phase>>
      [] s.tag \in {"HalfClosedLocal", "HalfClosedRemote"} -> <<s.tag, s.peer.phase>>
      [] OTHER -> <<s.tag>>

\* the controller the recv-window accessors are documented to act on: the
\* Data-phase controller of Open.local, or of the half HalfClosedRemote carries
RecvWindowTarget(s) ==
    IF s.tag = "Open" THEN Controllers({s.local})
    ELSE IF s.tag = "HalfClosedRemote" THEN Controllers({s.peer})
    ELSE {}

AccessorTarget(op, s) ==
    IF op \in SendAccessors THEN SendWindowTarget(s) ELSE RecvWindowTarget(s)

\* C14: the six window accessors leave the variant and the phase of each half
\* unchanged, and when the state carries no relevant Data-phase controller, or
\* the amount is 0, grow and shrink leave the whole state as it is and take
\* returns None.
C14_AccessorsNonTransitioning ==
    last.op \in GrowShrinkOps \cup TakeOps =>
        /\ Shape(state) = Shape(last.pre)
        /\ (last.op \in GrowShrinkOps
                /\ (AccessorTarget(last.op, last.pre) = {} \/ last.arg = 0))
              => state = last.pre
        /\ (last.op \in TakeOps /\ AccessorTarget(last.op, last.pre) = {})
              => last.res = None

PendingOf(fcs) == (CHOOSE fc \in fcs : TRUE).next_window_update

\* what a take returns on a controller with the given pending increment
Owed(n) == IF n = 0 THEN None ELSE Some(n)

\* C15: a take returns the pending increment of its controller and drains it, so
\* that a take right after one that returned Some(n) returns None; every grow by
\* a positive amount adds the amount to what is pending, so that the grows
\* between two takes come out as one Some carrying their sum.
C15_TakeDrainsAndCoalesces ==
    /\ last.op \in TakeOps =>
            LET t == AccessorTarget(last.op, last.pre) IN
            /\ last.res = IF t = {} THEN None ELSE Owed(PendingOf(t))
            /\ last.res # None =>
                  /\ take_send_window_update(state).res = None
                        \/ last.op # "take_send_window_update"
                  /\ take_recv_window_update(state).res = None
                        \/ last.op # "take_recv_window_update"
    /\ (last.op \in {"grow_send_window", "grow_recv_window"} /\ last.arg > 0
            /\ AccessorTarget(last.op, last.pre) # {}) =>
            /\ AccessorTarget(last.op, state) # {}
            /\ PendingOf(AccessorTarget(last.op, state))
                  = PendingOf(AccessorTarget(last.op, last.pre)) + last.arg

\* C15 witness: two grows of 1 have come out of take_send_window_update as Some(2).
C15_Witness ==
    /\ last.op = "take_send_window_update"
    /\ MaxIncr = 1
    /\ last.res = Some(2)
    /\ take_send_window_update(state).res = None

\* C18: recv_headers and recv_data leave the local half as it is (if the state
\* after the call still carries it), send_headers and send_data the remote half,
\* except for the call that takes the stream out of Idle.
C18_HalvesIndependent ==
    /\ (last.op \in RecvOps /\ last.pre # Idle /\ SendHalf(state) # {})
            => SendHalf(state) = SendHalf(last.pre)
    /\ (last.op \in SendOps /\ last.pre # Idle /\ RecvHalf(state) # {})
            => RecvHalf(state) = RecvHalf(last.pre)

\* C18 witness: END_STREAM received in a DATA frame on an Open stream whose two
\* halves differ; the local half is carried over to HalfClosedRemote.
C18_Witness ==
    /\ last.op = "recv_data"
    /\ last.eos
    /\ last.pre.tag = "Open"
    /\ last.pre.local.phase = "Data"
    /\ last.pre.local # last.pre.remote
    /\ state = HalfClosedRemote(last.pre.local)

\* C16: through every sequence of grows, shrinks and claims a controller's window
\* never exceeds the protocol maximum 2^31 - 1 (a grow that would pass it leaves
\* the window at the maximum), and a claim succeeds only against a non-negative
\* window at least as large as the claim: once a shrink has driven the window
\* negative, every claim fails until grows have restored that much.
C16_WindowClampedAndNegativeBlocks ==
    /\ \A fc \in AllControllers(state) : fc.window_size <= MAX_WINDOW_SIZE
    /\ (last.op \in {"grow_send_window", "grow_recv_window"} /\ last.arg > 0
            /\ AccessorTarget(last.op, last.pre) # {}) =>
            LET before == WindowOf(AccessorTarget(last.op, last.pre))
                after == WindowOf(AccessorTarget(last.op, state))
            IN  IF before > 0 /\ last.arg > MAX_WINDOW_SIZE - before
                THEN after = MAX_WINDOW_SIZE
                ELSE after = before + last.arg
    /\ (last.op \in {"recv_data", "send_data"}
            /\ Controllers(DataHalf(last.op, last.pre)) # {}) =>
            LET w == WindowOf(Controllers(DataHalf(last.op, last.pre)))
            IN  IF w >= 0 /\ last.arg <= w
                THEN last.res = OkUnit
                ELSE /\ last.res = IF last.op = "recv_data" THEN Err("FlowControlError")
                                   ELSE Err("FlowControlViolation")
                     /\ state = last.pre

\* C16 witness: a grow at the protocol maximum has left the receive-side window
\* at the maximum, on a stream whose send-side window a shrink has driven
\* negative, so that even an empty DATA frame cannot be sent.
C16_Witness ==
    /\ last.op = "grow_send_window"
    /\ last.arg = 1
    /\ last.pre.tag = "Open"
    /\ last.pre.remote.phase = "Data"
    /\ last.pre.remote.fc.window_size = MAX_WINDOW_SIZE
    /\ state.remote.fc.window_size = MAX_WINDOW_SIZE
    /\ state.local.phase = "Data"
    /\ state.local.fc.window_size < 0
    /\ send_data(state, FALSE, 0).res = Err("FlowControlViolation")

\* C17: once a send_headers / send_data call with eos has succeeded, every later
\* send_headers / send_data call fails with UnexpectedFrameType and leaves the
\* state unchanged; once a recv_headers / recv_data call with eos has succeeded,
\* every later recv_headers / recv_data call fails with ProtocolError and leaves
\* the state unchanged.
C17_EndStreamFinal ==
    [][/\ (send_ended /\ last'.op \in SendOps)
            => (last'.res = Err("UnexpectedFrameType") /\ state' = state)
       /\ (recv_ended /\ last'.op \in RecvOps)
            => (last'.res = Err("ProtocolError") /\ state' = state)]_vars

\* C17 witness: after END_STREAM was sent and HEADERS were then received, a DATA
\* frame offered for sending has been rejected.
C17_Witness ==
    /\ send_ended
    /\ ~recv_ended
    /\ last.op = "send_data"
    /\ last.res = Err("UnexpectedFrameType")
    /\ state.tag = "HalfClosedLocal"
    /\ state.peer.phase = "Data"

\* C19: on a stream established by send_headers the remote half of an Open state
\* is always in the Headers phase: recv_headers without END_STREAM and recv_data
\* fail with ProtocolError as long as the stream is Open, and an Open state whose
\* remote half is in the Data phase occurs only on streams established by
\* recv_headers.
C19_LocallyOpenedRemoteStaysHeaders ==
    /\ (opened_by = "send_headers" /\ state.tag = "Open") => state.remote = Headers
    /\ (state.tag = "Open" /\ state.remote.phase = "Data") => opened_by = "recv_headers"
    /\ (/\ opened_by = "send_headers"
        /\ last.pre.tag = "Open"
        /\ (last.op = "recv_headers" /\ ~last.eos) \/ last.op = "recv_data")
            => (last.res = Err("ProtocolError") /\ state = last.pre)

\* C19 witness: a DATA frame received on a locally established Open stream has
\* been rejected.
C19_Witness ==
    /\ opened_by = "send_headers"
    /\ last.op = "recv_data"
    /\ last.pre.tag = "Open"
    /\ state.tag = "Open"
    /\ last.res = Err("ProtocolError")

====
